---- MODULE Spec2Model ----
(***************************************************************************)
(* A model of the ChipsScreenController device driver (src/src/device.rs,  *)
(* src/src/color.rs): the command codec, the chunked transfers, the pixel  *)
(* partitioner, the image lowering and the device session.                 *)
(*                                                                         *)
(* One call of a public operation of ChipsDevice is one action.  The bytes *)
(* the call hands to the serial port, the sleeps it takes and the value it *)
(* returns are recorded in log and result; the action Return is the caller *)
(* taking the result before it makes the next call.                        *)
(***************************************************************************)
EXTENDS Integers, Sequences, FiniteSets, TLC

(***************************************************************************)
(* Program constants.                                                      *)
(***************************************************************************)
SCREEN_WIDTH == 800
SCREEN_HEIGHT == 480
PIXEL_DEPTH == 2

(***************************************************************************)
(* Bounds of the model.                                                    *)
(***************************************************************************)
\* the environment may fail the k-th write of a call, k in 1..MaxFailAt
MaxFailAt == 3
\* images of 1..MaxImgW by 1..MaxImgH pixels
MaxImgW == 2
MaxImgH == 2
\* every sequence of at most MaxPts points of PointPalette
MaxPts == 2
\* generated point lists of 0..MaxLongPts points (two bytes each: three chunks)
MaxLongPts == 57
\* graphs of 0..MaxCount samples (three chunks)
MaxCount == 105

VARIABLES
    serial_port,  \* "None" | "Some": ChipsDevice.serial_port
    pc,           \* "idle" | "returned" | "panicked": where the caller is
    call,         \* the operation last called, with its arguments
    log,          \* what the call did: writes, failed writes, sleeps, in order
    result        \* what the call returned: "Ok" or an error of ChipsError

vars == <<serial_port, pc, call, log, result>>

(***************************************************************************)
(* Integer and bit arithmetic as the code uses it.  All values stay far    *)
(* below 2^31, so i32 arithmetic is exact; the casts truncate.             *)
(***************************************************************************)
Shr(x, n) == x \div (2 ^ n)      \* arithmetic shift right (floor)
Shl(x, n) == x * (2 ^ n)

RECURSIVE BitAnd(_, _)
\* a & b, for b >= 0 (a in two's complement)
BitAnd(a, b) ==
    IF a = 0 \/ b = 0 THEN 0
    ELSE (a % 2) * (b % 2) + 2 * BitAnd(a \div 2, b \div 2)

RECURSIVE BitOr(_, _)
\* a | b, for a >= 0 and b >= 0
BitOr(a, b) ==
    IF a = 0 THEN b
    ELSE IF b = 0 THEN a
    ELSE (IF a % 2 = 1 \/ b % 2 = 1 THEN 1 ELSE 0) + 2 * BitOr(a \div 2, b \div 2)

U8(x) == x % 256                 \* `as u8`
U16(x) == x % 65536              \* `as u16`

\* vec![0; n]
Zeros(n) == [i \in 1..n |-> 0]
\* data[i] = v, with the code's 0-based index
SetAt(data, i, v) == [data EXCEPT ![i + 1] = v]
\* &data[from..to], with the code's 0-based half-open range
Slice(data, from, to) == SubSeq(data, from + 1, to)
\* a slice &data[from..to] is in range
SliceOk(data, from, to) == from <= to /\ to <= Len(data)
\* CopyAt with the destination one byte too far
CopyAt_shifted(buf, at, src) ==
    [i \in 1..Len(buf) |->
        IF i > at + 1 /\ i <= at + 1 + Len(src) THEN src[i - at - 1] ELSE buf[i]]

\* buf[at..at + Len(src)].copy_from_slice(src)
CopyAt(buf, at, src) ==
    [i \in 1..Len(buf) |->
        IF i > at /\ i <= at + Len(src) THEN src[i - at] ELSE buf[i]]

(***************************************************************************)
(* color.rs                                                                *)
(***************************************************************************)
Color(r, g, b) == [r |-> r, g |-> g, b |-> b]

as_serial(c) ==
    U16(BitOr(BitOr(BitAnd(Shl(c.r, 8), 63488), BitAnd(Shl(c.g, 3), 2016)),
              Shr(c.b, 3)))

(***************************************************************************)
(* The running call: st = [port, failAt, log, res].  port is whether       *)
(* serial_port is Some; failAt = k > 0 makes the k-th write of the call    *)
(* fail with an io error (0: the transport does not fail); res is "Ok"     *)
(* until the call fails.                                                   *)
(***************************************************************************)
Event(kind, data, ms) == [kind |-> kind, data |-> data, ms |-> ms]

Begin(port, failAt) ==
    [port |-> port, failAt |-> failAt, log |-> <<>>, res |-> "Ok"]

\* the writes so far handed to the serial port, failed ones included
Attempts(l) == Cardinality({i \in DOMAIN l : l[i].kind \in {"write", "fail"}})

\* thread::sleep(Duration::from_millis(ms))
sleep(st, ms) == [st EXCEPT !.log = Append(@, Event("sleep", <<>>, ms))]

\* write_to_serial_port with the io error dropped instead of returned
write_to_serial_port_ignoring(st, data) ==
    IF st.port
    THEN IF Attempts(st.log) + 1 = st.failAt
         THEN [st EXCEPT !.log = Append(@, Event("fail", data, 0))]
         ELSE [st EXCEPT !.log = Append(@, Event("write", data, 0))]
    ELSE st

write_to_serial_port(st, data) ==
    IF st.port
    THEN IF Attempts(st.log) + 1 = st.failAt
         THEN [st EXCEPT !.log = Append(@, Event("fail", data, 0)),
                         !.res = "Io"]
         ELSE [st EXCEPT !.log = Append(@, Event("write", data, 0))]
    ELSE st

\* compact_header with top shifted by 2 instead of 4 in byte 1
compact_header_shift(command_code, left, top, right, bottom, data) ==
    LET d0 == SetAt(data, 0, U8(Shr(left, 2)))
        d1 == SetAt(d0, 1, U8(Shl(BitAnd(left, 3), 6) + Shr(top, 2)))
        d2 == SetAt(d1, 2, U8(Shl(BitAnd(top, 15), 4) + Shr(right, 6)))
        d3 == SetAt(d2, 3, U8(Shl(BitAnd(right, 63), 2) + Shr(bottom, 8)))
        d4 == SetAt(d3, 4, U8(BitAnd(bottom, 255)))
    IN  SetAt(d4, 5, command_code)

\* the six header bytes send_command_delayed puts into data
compact_header(command_code, left, top, right, bottom, data) ==
    LET d0 == SetAt(data, 0, U8(Shr(left, 2)))
        d1 == SetAt(d0, 1, U8(Shl(BitAnd(left, 3), 6) + Shr(top, 4)))
        d2 == SetAt(d1, 2, U8(Shl(BitAnd(top, 15), 4) + Shr(right, 6)))
        d3 == SetAt(d2, 3, U8(Shl(BitAnd(right, 63), 2) + Shr(bottom, 8)))
        d4 == SetAt(d3, 4, U8(BitAnd(bottom, 255)))
    IN  SetAt(d4, 5, command_code)

\* returns [st, data]: the call's state and the buffer as the callee left it
send_command_delayed(st, command_code, left, top, right, bottom, data, delay) ==
    IF Len(data) < 6
    THEN [st |-> [st EXCEPT !.res = "InvalidLength"], data |-> data]
    ELSE LET d == compact_header(command_code, left, top, right, bottom, data)
             s1 == write_to_serial_port(st, d)
         IN  IF s1.res # "Ok"
             THEN [st |-> s1, data |-> d]
             ELSE [st |-> sleep(s1, delay), data |-> d]

send_command(st, command_code, left, top, right, bottom, data) ==
    send_command_delayed(st, command_code, left, top, right, bottom, data, 5)

send_command_simple(st, command_code, left, top, right, bottom) ==
    send_command_delayed(st, command_code, left, top, right, bottom, Zeros(6), 5).st

send_command_code(st, command_code) ==
    send_command_delayed(st, command_code, 0, 0, 0, 0, Zeros(6), 5).st

send_command_122(st, mode_num) ==
    send_command(st, 122, 0, 0, 0, 0, SetAt(Zeros(16), 6, mode_num)).st

send_command_121(st, landscape_invert, width, height) ==
    LET li == U8(landscape_invert + 100)
        d6 == SetAt(Zeros(16), 6, li)
        d7 == SetAt(d6, 7, U8(Shr(width, 8)))
        d8 == SetAt(d7, 8, U8(BitAnd(width, 255)))
        d9 == SetAt(d8, 9, U8(Shr(height, 8)))
        d10 == SetAt(d9, 10, U8(BitAnd(height, 255)))
    IN  send_command(st, 121, 0, 0, 0, 0, d10).st

(***************************************************************************)
(* Power, brightness, orientation.                                         *)
(***************************************************************************)
shutdown(st) == send_command_code(st, 108)

restart(st) ==
    LET s1 == send_command_code(st, 101)
    IN  IF s1.res # "Ok" THEN s1 ELSE sleep(s1, 1000)

set_brightness(st, value) == send_command_simple(st, 110, value, 0, 0, 0)

adjust_screen(st, is_mirror, is_landscape, is_invert) ==
    LET s1 == IF is_mirror THEN send_command_122(st, 1)
                           ELSE send_command_122(st, 0)
        landscape_invert ==
            IF is_landscape /\ ~is_invert THEN 2
            ELSE IF ~is_landscape /\ is_invert THEN 1
            ELSE IF ~is_landscape /\ ~is_invert THEN 0
            ELSE 3
    IN  IF s1.res # "Ok" THEN s1
        ELSE send_command_121(s1, landscape_invert, SCREEN_WIDTH, SCREEN_HEIGHT)

startup(st) ==
    LET s1 == send_command_code(st, 109)
    IN  IF s1.res # "Ok" THEN s1 ELSE adjust_screen(s1, FALSE, TRUE, TRUE)

(***************************************************************************)
(* The extended header and the rectangle.                                  *)
(***************************************************************************)
\* the twelve header bytes kd_draw_buf puts into data
extended_header(command_code, left, top, right, bottom, color, ecc, data) ==
    LET d0 == SetAt(data, 0, U8(Shr(left, 8)))
        d1 == SetAt(d0, 1, U8(BitAnd(left, 255)))
        d2 == SetAt(d1, 2, U8(Shr(top, 8)))
        d3 == SetAt(d2, 3, U8(BitAnd(top, 255)))
        d4 == SetAt(d3, 4, U8(Shr(right, 8)))
        d5 == SetAt(d4, 5, U8(BitAnd(right, 255)))
        d6 == SetAt(d5, 6, U8(Shr(bottom, 8)))
        d7 == SetAt(d6, 7, U8(BitAnd(bottom, 255)))
        d8 == SetAt(d7, 8, U8(Shr(color, 8)))
        d9 == SetAt(d8, 9, U8(BitAnd(color, 255)))
        d10 == SetAt(d9, 10, ecc)
    IN  SetAt(d10, 11, command_code)

kd_draw_buf(st, command_code, left, top, right, bottom, color, ecc, data) ==
    write_to_serial_port(
        st, extended_header(command_code, left, top, right, bottom, color, ecc, data))

kd_draw(st, command_code, left, top, right, bottom, color, ecc) ==
    kd_draw_buf(st, command_code, left, top, right, bottom, color, ecc, Zeros(12))

\* ecc_of with b shifted by 2 instead of 3
ecc_of_shift(a, b) ==
    U8(BitOr(BitAnd(Shr(a, 2) + 2, 15), BitAnd(Shr(b, 2) + 3, 240)))

\* ((a >> 2) + 2 & 15) | ((b >> 3) + 3 & 240), as u8
ecc_of(a, b) ==
    U8(BitOr(BitAnd(Shr(a, 2) + 2, 15), BitAnd(Shr(b, 3) + 3, 240)))

draw_rectangle(st, left, top, right, bottom, color) ==
    LET color_16 == as_serial(color)
        ecc == ecc_of(color_16, bottom)
    IN  kd_draw(st, 136, left, top, right, bottom, color_16, ecc)

(***************************************************************************)
(* Images.  An image is [width, height, px], px[<<x, y>>] = <<r, g, b>>.   *)
(***************************************************************************)
RECURSIVE image_to_buffer_loop(_, _, _)
\* the two nested loops, pixel k = x + width * y at a time
image_to_buffer_loop(image, buf, k) ==
    IF k >= image.width * image.height THEN buf
    ELSE LET x == k % image.width
             y == k \div image.width
             pixel == image.px[<<x, y>>]
             pixel_r == Shr(pixel[1], 3)
             pixel_g == Shr(pixel[2], 2)
             pixel_b == Shr(pixel[3], 3)
             pixel_16 == U16(BitOr(BitOr(Shl(pixel_r, 11), Shl(pixel_g, 5)), pixel_b))
             idx == x * PIXEL_DEPTH + (PIXEL_DEPTH * image.width) * y
             b0 == SetAt(buf, idx, U8(BitAnd(pixel_16, 255)))
             b1 == SetAt(b0, idx + 1, U8(Shr(pixel_16, 8)))
         IN  image_to_buffer_loop(image, b1, k + 1)

image_to_buffer(image) ==
    image_to_buffer_loop(image, Zeros(PIXEL_DEPTH * image.width * image.height), 0)

\* image_too_large with >= for >
image_too_large_at_edge(width, height, x, y) ==
    width + x >= SCREEN_WIDTH \/ height + y >= SCREEN_HEIGHT

\* the guard of draw_image
image_too_large(width, height, x, y) ==
    width + x > SCREEN_WIDTH \/ height + y > SCREEN_HEIGHT

draw_image(st, image, x, y) ==
    LET width == image.width
        height == image.height
    IN  IF image_too_large(width, height, x, y)
        THEN [st EXCEPT !.res = "ImageTooLarge"]
        ELSE LET buf == image_to_buffer(image)
                 s1 == send_command_simple(st, 197, x, y, x + width - 1, y + height - 1)
                 s2 == write_to_serial_port(s1, buf)
             IN  IF s1.res # "Ok" THEN s1
                 ELSE IF s2.res # "Ok" THEN s2
                 ELSE sleep(s2, 10)

(***************************************************************************)
(* Pixel lists.  A point is <<x, y>>.                                      *)
(***************************************************************************)
RECURSIVE draw_pixels_raw_loop(_, _, _, _, _, _, _)
\* the while loop of draw_pixels_raw; buf and right live across iterations
draw_pixels_raw_loop(st, offset_x, offset_y, coordinates, buf, right, source_index) ==
    IF ~(source_index < Len(coordinates)) THEN st
    ELSE LET chunk_reserved == 8
             chunk_offset == 64 - chunk_reserved
             right1 == IF source_index + chunk_offset > Len(coordinates)
                       THEN Len(coordinates) - source_index
                       ELSE right
             copy_len == right1
             buf1 == CopyAt(buf, chunk_reserved,
                            Slice(coordinates, source_index, source_index + copy_len))
             sent == send_command(st, 195, offset_x, offset_y, right1, 0, buf1)
         IN  IF sent.st.res # "Ok" THEN sent.st
             ELSE draw_pixels_raw_loop(sent.st, offset_x, offset_y, coordinates,
                                       sent.data, right1, source_index + right1)

\* draw_pixels_raw with the colour's low byte first, as image_to_buffer has it
draw_pixels_raw_low_first(st, offset_x, offset_y, color, coordinates) ==
    LET chunk_size == 64
        chunk_offset == chunk_size - 8
        color_16 == as_serial(color)
        buf6 == SetAt(Zeros(chunk_size), 6, U8(BitAnd(color_16, 255)))
        buf7 == SetAt(buf6, 7, U8(Shr(color_16, 8)))
        s0 == [st EXCEPT !.log = Append(@, Event("transfer", <<offset_x, offset_y>>, 0))]
    IN  draw_pixels_raw_loop(s0, offset_x, offset_y, coordinates, buf7, chunk_offset, 0)

draw_pixels_raw(st, offset_x, offset_y, color, coordinates) ==
    LET chunk_size == 64
        chunk_offset == chunk_size - 8
        color_16 == as_serial(color)
        buf6 == SetAt(Zeros(chunk_size), 6, U8(Shr(color_16, 8)))
        buf7 == SetAt(buf6, 7, U8(BitAnd(color_16, 255)))
        \* not part of the transport: marks where a transfer starts and the
        \* offset it was called with
        s0 == [st EXCEPT !.log = Append(@, Event("transfer", <<offset_x, offset_y>>, 0))]
    IN  draw_pixels_raw_loop(s0, offset_x, offset_y, coordinates, buf7, chunk_offset, 0)

RECURSIVE near_bytes(_)
\* list_1: the points with both coordinates below 256, as byte pairs
near_bytes(points) ==
    IF points = <<>> THEN <<>>
    ELSE LET point == Head(points)
         IN  IF point[1] < 256 /\ point[2] < 256
             THEN <<U8(point[1]), U8(point[2])>> \o near_bytes(Tail(points))
             ELSE near_bytes(Tail(points))

\* source: the other points
far_points(points) ==
    SelectSeq(points, LAMBDA point : ~(point[1] < 256 /\ point[2] < 256))

\* any_beyond with >= for >
any_beyond_or_at(source, k, offset) ==
    \E i \in DOMAIN source : source[i][k] - offset >= 255

\* source.iter().any(|point| point.k - offset > 255)
any_beyond(source, k, offset) ==
    \E i \in DOMAIN source : source[i][k] - offset > 255

\* source.iter().map(|point| point.k).min()
SeqMin(s, k) ==
    CHOOSE m \in {s[i][k] : i \in DOMAIN s} : \A i \in DOMAIN s : m <= s[i][k]

\* draw_pixels with the bounds of the far points checked before anything is sent
draw_pixels_check_first(st, color, points) ==
    IF Len(points) = 0 THEN st
    ELSE LET list_1 == near_bytes(points)
             source == far_points(points)
         IN  IF Len(source) = 0 THEN draw_pixels_raw(st, 0, 0, color, list_1)
             ELSE LET offset_x == SeqMin(source, 1)
                      offset_y == SeqMin(source, 2)
                      list_2 == [i \in 1..(2 * Len(source)) |->
                                    IF i % 2 = 1
                                    THEN U8(source[(i + 1) \div 2][1] - offset_x)
                                    ELSE U8(source[i \div 2][2] - offset_y)]
                  IN  IF any_beyond(source, 1, offset_x) \/ any_beyond(source, 2, offset_y)
                      THEN [st EXCEPT !.res = "BoundsTooLarge"]
                      ELSE LET s1 == draw_pixels_raw(st, 0, 0, color, list_1)
                           IN  IF s1.res # "Ok" THEN s1
                               ELSE draw_pixels_raw(s1, offset_x, offset_y, color, list_2)

draw_pixels(st, color, points) ==
    IF Len(points) = 0 THEN st
    ELSE LET list_1 == near_bytes(points)
             source == far_points(points)
             s1 == draw_pixels_raw(st, 0, 0, color, list_1)
         IN  IF s1.res # "Ok" THEN s1
             ELSE IF Len(source) = 0 THEN s1
             ELSE LET offset_x == SeqMin(source, 1)
                      offset_y == SeqMin(source, 2)
                      list_2 == [i \in 1..(2 * Len(source)) |->
                                    IF i % 2 = 1
                                    THEN U8(source[(i + 1) \div 2][1] - offset_x)
                                    ELSE U8(source[i \div 2][2] - offset_y)]
                  IN  IF any_beyond(source, 1, offset_x)
                      THEN [s1 EXCEPT !.res = "BoundsTooLarge"]
                      ELSE IF any_beyond(source, 2, offset_y)
                      THEN [s1 EXCEPT !.res = "BoundsTooLarge"]
                      ELSE draw_pixels_raw(s1, offset_x, offset_y, color, list_2)

(***************************************************************************)
(* Graphs.                                                                 *)
(***************************************************************************)
RECURSIVE draw_line_graph_loop_no_overlap(_, _, _, _, _, _, _, _)
\* draw_line_graph_loop without the extra trailing sample: copy_len = right
draw_line_graph_loop_no_overlap(st, x, y, count, color_bg_16, color_fg_16, data, source_index) ==
    IF ~(source_index < count) THEN st
    ELSE LET chunk_size == 64
             chunk_reserved == 12
             chunk_offset == chunk_size - chunk_reserved - 1
             right == IF source_index + chunk_offset > count
                      THEN count - source_index
                      ELSE chunk_offset
             left == x + source_index + 1
             copy_len == right
             ecc == ecc_of(color_fg_16, color_bg_16)
         IN  IF ~SliceOk(data, source_index, source_index + copy_len)
             THEN [st EXCEPT !.res = "Panic"]
             ELSE LET buf == CopyAt(Zeros(chunk_size), chunk_reserved,
                                    Slice(data, source_index, source_index + copy_len))
                      s1 == kd_draw_buf(st, 144,
                                        IF source_index = 0 THEN BitOr(left, 32768)
                                                            ELSE left,
                                        y, right, color_bg_16, color_fg_16, ecc, buf)
                  IN  IF s1.res # "Ok" THEN s1
                      ELSE draw_line_graph_loop_no_overlap(
                               s1, x, y, count, color_bg_16, color_fg_16, data,
                               source_index + right)

RECURSIVE draw_line_graph_loop(_, _, _, _, _, _, _, _)
draw_line_graph_loop(st, x, y, count, color_bg_16, color_fg_16, data, source_index) ==
    IF ~(source_index < count) THEN st
    ELSE LET chunk_size == 64
             chunk_reserved == 12
             chunk_offset == chunk_size - chunk_reserved - 1
             right == IF source_index + chunk_offset > count
                      THEN count - source_index
                      ELSE chunk_offset
             left == x + source_index + 1
             copy_len == right + 1
             ecc == ecc_of(color_fg_16, color_bg_16)
         IN  IF ~SliceOk(data, source_index, source_index + copy_len)
             THEN [st EXCEPT !.res = "Panic"]
             ELSE LET buf == CopyAt(Zeros(chunk_size), chunk_reserved,
                                    Slice(data, source_index, source_index + copy_len))
                      s1 == kd_draw_buf(st, 144,
                                        IF source_index = 0 THEN BitOr(left, 32768)
                                                            ELSE left,
                                        y, right, color_bg_16, color_fg_16, ecc, buf)
                  IN  IF s1.res # "Ok" THEN s1
                      ELSE draw_line_graph_loop(s1, x, y, count, color_bg_16,
                                                color_fg_16, data, source_index + right)

draw_line_graph(st, x, y, count, color_bg, color_fg, data) ==
    LET s1 == draw_line_graph_loop(st, x, y, count, as_serial(color_bg),
                                   as_serial(color_fg), data, 0)
    IN  IF s1.res # "Ok" THEN s1 ELSE sleep(s1, 5)

RECURSIVE draw_bar_graph_loop(_, _, _, _, _, _, _, _)
draw_bar_graph_loop(st, x, y, count, color_bg_16, color_fg_16, data, source_index) ==
    IF ~(source_index < count) THEN st
    ELSE LET chunk_size == 64
             chunk_reserved == 12
             chunk_offset == chunk_size - chunk_reserved
             right == IF source_index + chunk_offset > count
                      THEN count - source_index
                      ELSE chunk_offset
             left == x + source_index
             copy_len == right
             ecc == ecc_of(color_fg_16, color_bg_16)
         IN  IF ~SliceOk(data, source_index, source_index + copy_len)
             THEN [st EXCEPT !.res = "Panic"]
             ELSE LET buf == CopyAt(Zeros(chunk_size), chunk_reserved,
                                    Slice(data, source_index, source_index + copy_len))
                      s1 == kd_draw_buf(st, 137, left, y, right, color_bg_16,
                                        color_fg_16, ecc, buf)
                  IN  IF s1.res # "Ok" THEN s1
                      ELSE draw_bar_graph_loop(s1, x, y, count, color_bg_16,
                                               color_fg_16, data, source_index + right)

draw_bar_graph(st, x, y, count, color_bg, color_fg, data) ==
    LET s1 == draw_bar_graph_loop(st, x, y, count, as_serial(color_bg),
                                  as_serial(color_fg), data, 0)
    IN  IF s1.res # "Ok" THEN s1 ELSE sleep(s1, 5)

(***************************************************************************)
(* The actions: one per public operation of ChipsDevice.                   *)
(***************************************************************************)
FailAts == 0..MaxFailAt

\* a call that leaves the handle alone: records what it did and returned
Finish(op, args, failAt, out) ==
    /\ call' = [op |-> op, args |-> args, failAt |-> failAt,
                port |-> serial_port]
    /\ log' = out.log
    /\ result' = out.res
    /\ pc' = IF out.res = "Panic" THEN "panicked" ELSE "returned"
    /\ UNCHANGED serial_port

Start(failAt) == Begin(serial_port = "Some", failAt)

\* connect keeping the new handle although raising DTR failed
connect_keeps_on_error(handle, openOk, dtrOk) ==
    IF ~openOk
    THEN [serial_port |-> handle, res |-> "SerialPort",
          log |-> <<Event("open", <<>>, 0)>>]
    ELSE [serial_port |-> "Some", res |-> IF dtrOk THEN "Ok" ELSE "SerialPort",
          log |-> <<Event("open", <<>>, 0), Event("dtr", <<>>, 0)>>]

\* connect: open the port, raise DTR, and only then keep the new handle.
\* openOk and dtrOk are what the serial port library answers.
connect(handle, openOk, dtrOk) ==
    IF ~openOk
    THEN [serial_port |-> handle, res |-> "SerialPort",
          log |-> <<Event("open", <<>>, 0)>>]
    ELSE IF ~dtrOk
    THEN [serial_port |-> handle, res |-> "SerialPort",
          log |-> <<Event("open", <<>>, 0), Event("dtr", <<>>, 0)>>]
    ELSE [serial_port |-> "Some", res |-> "Ok",
          log |-> <<Event("open", <<>>, 0), Event("dtr", <<>>, 0)>>]

Connect ==
    /\ pc = "idle"
    /\ \E openOk \in BOOLEAN, dtrOk \in BOOLEAN :
        LET out == connect(serial_port, openOk, dtrOk)
        IN  /\ call' = [op |-> "connect",
                        args |-> [openOk |-> openOk, dtrOk |-> dtrOk],
                        failAt |-> 0, port |-> serial_port]
            /\ log' = out.log
            /\ result' = out.res
            /\ serial_port' = out.serial_port
            /\ pc' = "returned"

Startup ==
    /\ pc = "idle"
    /\ \E failAt \in FailAts :
        Finish("startup", [none |-> 0], failAt, startup(Start(failAt)))

Shutdown ==
    /\ pc = "idle"
    /\ \E failAt \in FailAts :
        Finish("shutdown", [none |-> 0], failAt, shutdown(Start(failAt)))

Restart ==
    /\ pc = "idle"
    /\ \E failAt \in FailAts :
        Finish("restart", [none |-> 0], failAt, restart(Start(failAt)))

BrightnessValues == {0, 1, 100, 255, 1023}

SetBrightness ==
    /\ pc = "idle"
    /\ \E failAt \in FailAts, value \in BrightnessValues :
        Finish("set_brightness", [value |-> value], failAt,
               set_brightness(Start(failAt), value))

AdjustScreen ==
    /\ pc = "idle"
    /\ \E failAt \in FailAts, m \in BOOLEAN, l \in BOOLEAN, i \in BOOLEAN :
        Finish("adjust_screen",
               [is_mirror |-> m, is_landscape |-> l, is_invert |-> i], failAt,
               adjust_screen(Start(failAt), m, l, i))

Black == Color(0, 0, 0)
Red == Color(255, 0, 0)
White == Color(255, 255, 255)
Grey == Color(1, 130, 77)
Colors == {Black, Red, White, Grey}

RectCoords == {0, 64, 799}

DrawRectangle ==
    /\ pc = "idle"
    /\ \E failAt \in FailAts, left \in {0, 300}, top \in {0, 257},
          right \in RectCoords, bottom \in RectCoords, color \in {Red, Grey} :
        Finish("draw_rectangle",
               [left |-> left, top |-> top, right |-> right, bottom |-> bottom,
                color |-> color], failAt,
               draw_rectangle(Start(failAt), left, top, right, bottom, color))

\* the rasters drawn: one colour, or a pattern that differs from pixel to pixel
ImagePatterns == {"red", "white", "mixed"}
PatternPixel(pat, x, y) ==
    IF pat = "red" THEN <<255, 0, 0>>
    ELSE IF pat = "white" THEN <<255, 255, 255>>
    ELSE <<(37 * x + 101 * y + 9) % 256, (91 * x + 53 * y + 200) % 256,
           (17 * x + 29 * y + 7) % 256>>
Image(w, h, pat) ==
    [width |-> w, height |-> h,
     px |-> [p \in (0..(w - 1)) \X (0..(h - 1)) |-> PatternPixel(pat, p[1], p[2])]]

\* placements around the screen's edge
ImageXs(w) == {0, SCREEN_WIDTH - w - 1, SCREEN_WIDTH - w, SCREEN_WIDTH - w + 1}
ImageYs(h) == {0, SCREEN_HEIGHT - h - 1, SCREEN_HEIGHT - h, SCREEN_HEIGHT - h + 1}

DrawImage ==
    /\ pc = "idle"
    /\ \E failAt \in FailAts, w \in 1..MaxImgW, h \in 1..MaxImgH,
          pat \in ImagePatterns :
        \E x \in ImageXs(w), y \in ImageYs(h) :
            Finish("draw_image", [image |-> Image(w, h, pat), x |-> x, y |-> y],
                   failAt, draw_image(Start(failAt), Image(w, h, pat), x, y))

\* near points, far points a span of 255 or 256 apart, negative coordinates
PointPalette ==
    {<<0, 0>>, <<255, 255>>, <<-1, 5>>, <<256, 0>>, <<511, 0>>, <<512, 0>>,
     <<300, 256>>, <<300, 511>>, <<300, 512>>, <<300, -1>>}

ShortPoints == UNION {[1..n -> PointPalette] : n \in 0..MaxPts}

\* "spread": near points, and every eighth point far, 320 apart in x
LongKinds == {"near", "far", "mixed", "spread"}
LongPoint(kind, i) ==
    IF kind = "spread" /\ i % 8 = 1
    THEN <<300 + 40 * i, 256>>
    ELSE IF kind \in {"near", "spread"} \/ (kind = "mixed" /\ i % 2 = 0)
    THEN <<(7 * i) % 256, (3 * i + 1) % 256>>
    ELSE <<300 + i, 256 + 2 * i>>
LongPoints == {[i \in 1..n |-> LongPoint(kind, i)] : n \in 0..MaxLongPts,
                                                    kind \in LongKinds}

DrawPixels ==
    /\ pc = "idle"
    /\ \E failAt \in FailAts, color \in {Red, Grey},
          points \in ShortPoints \cup LongPoints :
        Finish("draw_pixels", [color |-> color, points |-> points], failAt,
               draw_pixels(Start(failAt), color, points))

\* graph samples: no two of them equal
Samples(len, seed) == [i \in 1..len |-> (seed + 5 * i) % 256]
\* len(data) - count
Slacks == {-1, 0, 1, 2}
GraphVariants ==
    {[x |-> 0, y |-> 100, bg |-> Black, fg |-> Red, seed |-> 3],
     [x |-> 700, y |-> 300, bg |-> Grey, fg |-> White, seed |-> 200]}

DrawLineGraph ==
    /\ pc = "idle"
    /\ \E failAt \in FailAts, count \in 0..MaxCount, slack \in Slacks,
          v \in GraphVariants :
        /\ count + slack >= 0
        /\ LET data == Samples(count + slack, v.seed)
           IN  Finish("draw_line_graph",
                      [x |-> v.x, y |-> v.y, count |-> count, color_bg |-> v.bg,
                       color_fg |-> v.fg, data |-> data], failAt,
                      draw_line_graph(Start(failAt), v.x, v.y, count, v.bg, v.fg, data))

DrawBarGraph ==
    /\ pc = "idle"
    /\ \E failAt \in FailAts, count \in 0..MaxCount, slack \in Slacks,
          v \in GraphVariants :
        /\ count + slack >= 0
        /\ LET data == Samples(count + slack, v.seed)
           IN  Finish("draw_bar_graph",
                      [x |-> v.x, y |-> v.y, count |-> count, color_bg |-> v.bg,
                       color_fg |-> v.fg, data |-> data], failAt,
                      draw_bar_graph(Start(failAt), v.x, v.y, count, v.bg, v.fg, data))

\* the caller takes the result; the next call starts with an empty record
Return ==
    /\ pc = "returned"
    /\ pc' = "idle"
    /\ log' = <<>>
    /\ result' = "Ok"
    /\ call' = [op |-> "none", args |-> [none |-> 0], failAt |-> 0,
                port |-> serial_port]
    /\ UNCHANGED serial_port

Init ==
    /\ serial_port = "None"
    /\ pc = "idle"
    /\ call = [op |-> "none", args |-> [none |-> 0], failAt |-> 0, port |-> "None"]
    /\ log = <<>>
    /\ result = "Ok"

Next ==
    \/ Connect
    \/ Startup
    \/ Shutdown
    \/ Restart
    \/ SetBrightness
    \/ AdjustScreen
    \/ DrawRectangle
    \/ DrawImage
    \/ DrawPixels
    \/ DrawLineGraph
    \/ DrawBarGraph
    \/ Return

Spec == Init /\ [][Next]_vars

(***************************************************************************)
(* The compact header alone: send_command_delayed applied, on a connected  *)
(* session, to fields within the widths the specification states (10, 8,   *)
(* 8, 10 bits): each field all zeros, all ones, or a single bit.           *)
(***************************************************************************)
FieldValues(width) == {0, 2 ^ width - 1} \cup {2 ^ k : k \in 0..(width - 1)}

HeaderInputs ==
    [left : FieldValues(10), top : FieldValues(8), right : FieldValues(8),
     bottom : FieldValues(10), command_code : {0, 195}]

InitHeader ==
    /\ serial_port = "Some"
    /\ pc = "idle"
    /\ call \in {[op |-> "send_command_delayed", args |-> a, failAt |-> 0,
                   port |-> "Some"] : a \in HeaderInputs}
    /\ log = <<>>
    /\ result = "Ok"

SendCommandDelayed ==
    /\ pc = "idle"
    /\ call.op = "send_command_delayed"
    /\ LET a == call.args
           out == send_command_delayed(Start(0), a.command_code, a.left, a.top,
                                       a.right, a.bottom, Zeros(6), 5).st
       IN  /\ log' = out.log
           /\ result' = out.res
    /\ pc' = "returned"
    /\ UNCHANGED <<call, serial_port>>

NextHeader == SendCommandDelayed

SpecHeader == InitHeader /\ [][NextHeader]_vars

(***************************************************************************)
(* What the properties below read off a finished call.                     *)
(***************************************************************************)
Done == pc \in {"returned", "panicked"}
Connected == call.port = "Some"

\* the frames that reached the transport, in order
Frames(l) == SelectSeq(l, LAMBDA e : e.kind = "write")
NoFail(l) == \A i \in DOMAIN l : l[i].kind # "fail"

\* the k-th pixel-list transfer of a call: its offset and its frames
MarkerPos(l) == {i \in DOMAIN l : l[i].kind = "transfer"}
NthMarker(l, k) ==
    CHOOSE i \in MarkerPos(l) : Cardinality({j \in MarkerPos(l) : j <= i}) = k
SegEnd(l, k) ==
    IF k < Cardinality(MarkerPos(l)) THEN NthMarker(l, k + 1) ELSE Len(l) + 1
TransferOffset(l, k) == l[NthMarker(l, k)].data
TransferFrames(l, k) == Frames(SubSeq(l, NthMarker(l, k) + 1, SegEnd(l, k) - 1))

\* the 16-bit colour of section 3 of the specification, by arithmetic
ToSerial(r, g, b) == (r \div 8) * 2048 + (g \div 4) * 32 + (b \div 8)
Hi(v) == v \div 256
Lo(v) == v % 256

\* the element count a frame's header carries
PixelCount(d) == (d[3] % 16) * 64 + (d[4] \div 4)
GraphCount(d) == d[5] * 256 + d[6]
Counts(frames, reserved) ==
    [k \in DOMAIN frames |->
        IF reserved = 8 THEN PixelCount(frames[k].data)
                        ELSE GraphCount(frames[k].data)]

\* ceil(n / c) chunks: c elements each, the last one the rest
ChunkCount(n, c) == (n + c - 1) \div c
ChunkSizes(n, c) ==
    [k \in 1..ChunkCount(n, c) |-> IF k * c <= n THEN c ELSE n - (k - 1) * c]

RECURSIVE ConcatData(_, _)
\* the data slices of the frames, one after the other
ConcatData(frames, reserved) ==
    IF frames = <<>> THEN <<>>
    ELSE LET d == Head(frames).data
             n == IF reserved = 8 THEN PixelCount(d) ELSE GraphCount(d)
         IN  SubSeq(d, reserved + 1, reserved + n) \o ConcatData(Tail(frames), reserved)

\* the partition of section 4.4 of the specification
IsNear(p) == p[1] < 256 /\ p[2] < 256
NearOf(points) == SelectSeq(points, IsNear)
FarOf(points) == SelectSeq(points, LAMBDA p : ~IsNear(p))
MinOf(S) == CHOOSE m \in S : \A v \in S : m <= v
MaxOf(S) == CHOOSE m \in S : \A v \in S : m >= v
Xs(pts) == {pts[i][1] : i \in DOMAIN pts}
Ys(pts) == {pts[i][2] : i \in DOMAIN pts}
\* the byte pairs of pts relative to (ox, oy)
PairBytes(pts, ox, oy) ==
    [i \in 1..(2 * Len(pts)) |->
        IF i % 2 = 1 THEN (pts[(i + 1) \div 2][1] - ox) % 256
                     ELSE (pts[i \div 2][2] - oy) % 256]

(***************************************************************************)
(* C1.  Image lowering writes every pixel as its 16-bit 5-6-5 colour with  *)
(* the HIGH byte at offset 2*x + 2*width*y and the low byte next to it; a  *)
(* 2x1 image of pure red lowers to [0xF8, 0x00, 0xF8, 0x00].               *)
(* The code puts the low byte first (device.rs 131-132), under a comment   *)
(* that says the device is big-endian: the statement is violated.          *)
(***************************************************************************)
ImageDrawn ==
    /\ pc = "returned" /\ call.op = "draw_image" /\ Connected /\ result = "Ok"

\* the buffer draw_image wrote after the region-select frame
ImageBuffer == Frames(log)[2].data

\* C1: every pixel of the written buffer is its 5-6-5 colour, high byte first
C1_ImageHighByteFirst ==
    ImageDrawn =>
        LET image == call.args.image
            w == image.width
        IN  /\ Len(ImageBuffer) = 2 * w * image.height
            /\ \A p \in DOMAIN image.px :
                LET c == ToSerial(image.px[p][1], image.px[p][2], image.px[p][3])
                    at == 2 * p[1] + 2 * w * p[2]
                IN  /\ ImageBuffer[at + 1] = Hi(c)
                    /\ ImageBuffer[at + 2] = Lo(c)
            /\ (w = 2 /\ image.height = 1
                /\ \A p \in DOMAIN image.px : image.px[p] = <<255, 0, 0>>)
               => ImageBuffer = <<248, 0, 248, 0>>

\* what the code does: the same colour, low byte first
C1_ImageLowByteFirst ==
    ImageDrawn =>
        LET image == call.args.image
            w == image.width
        IN  /\ Len(ImageBuffer) = 2 * w * image.height
            /\ \A p \in DOMAIN image.px :
                LET c == ToSerial(image.px[p][1], image.px[p][2], image.px[p][3])
                    at == 2 * p[1] + 2 * w * p[2]
                IN  /\ ImageBuffer[at + 1] = Lo(c)
                    /\ ImageBuffer[at + 2] = Hi(c)

(***************************************************************************)
(* C2.  On a connected session with no transport failure a chunked         *)
(* transfer of N elements writes ceil(N / C) frames, C = 56 coordinate     *)
(* bytes for a pixel list, 52 samples for a bar graph, 51 samples for a    *)
(* line graph (N = count); every frame but the last carries C elements and *)
(* the last the rest.  30 near points make 2 frames of 28 and 2 points.    *)
(* Violated by draw_line_graph with count = len(data): its last chunk      *)
(* reads one sample past the data (C4) and the call aborts.                *)
(***************************************************************************)
Unfailed == Done /\ Connected /\ NoFail(log)

C2_PixelChunks ==
    (Unfailed /\ call.op = "draw_pixels" /\ call.args.points # <<>>) =>
        LET points == call.args.points
            near == 2 * Len(NearOf(points))
            far == 2 * Len(FarOf(points))
        IN  /\ Counts(TransferFrames(log, 1), 8) = ChunkSizes(near, 56)
            /\ result = "Ok" =>
                /\ Cardinality(MarkerPos(log)) = (IF far = 0 THEN 1 ELSE 2)
                /\ far > 0 => Counts(TransferFrames(log, 2), 8) = ChunkSizes(far, 56)
                /\ Len(Frames(log)) = ChunkCount(near, 56) + ChunkCount(far, 56)
            /\ (Len(points) = 30 /\ far = 0) =>
                /\ Len(Frames(log)) = 2
                /\ Counts(Frames(log), 8) = <<2 * 28, 2 * 2>>

C2_BarChunks ==
    (Unfailed /\ call.op = "draw_bar_graph"
     /\ call.args.count <= Len(call.args.data)) =>
        Counts(Frames(log), 12) = ChunkSizes(call.args.count, 52)

C2_LineChunks ==
    (Unfailed /\ call.op = "draw_line_graph"
     /\ call.args.count <= Len(call.args.data)) =>
        Counts(Frames(log), 12) = ChunkSizes(call.args.count, 51)

\* C2: every chunked transfer writes ceil(N / C) frames of C elements and the rest
C2_ChunkCounts == C2_PixelChunks /\ C2_BarChunks /\ C2_LineChunks

(***************************************************************************)
(* C3.  For every chunked transfer that completes, the data slices of its  *)
(* frames (the n bytes after the reserved header, n the element count in   *)
(* the frame's header), concatenated in send order, are the payload:       *)
(* nothing lost, duplicated or reordered.  Frames exist on a connected     *)
(* session only.                                                           *)
(***************************************************************************)
\* C3: the frames' data slices, concatenated in send order, are the payload
C3_ChunksReassemble ==
    /\ (Done /\ Connected /\ call.op = "draw_pixels" /\ call.args.points # <<>>
        /\ result \in {"Ok", "BoundsTooLarge"}) =>
            LET near == NearOf(call.args.points)
                far == FarOf(call.args.points)
            IN  /\ ConcatData(TransferFrames(log, 1), 8) = PairBytes(near, 0, 0)
                /\ (result = "Ok" /\ far # <<>>) =>
                    ConcatData(TransferFrames(log, 2), 8)
                        = PairBytes(far, MinOf(Xs(far)), MinOf(Ys(far)))
    /\ (Done /\ Connected /\ call.op \in {"draw_bar_graph", "draw_line_graph"}
        /\ result = "Ok") =>
            ConcatData(Frames(log), 12) = SubSeq(call.args.data, 1, call.args.count)

\* a line graph of three chunks went through
C3_Witness ==
    /\ pc = "returned" /\ Connected /\ call.op = "draw_line_graph"
    /\ result = "Ok" /\ Len(Frames(log)) = 3
    /\ call.args.count = 2 * 51 + 1

(***************************************************************************)
(* C4.  draw_line_graph never reads past the end of the payload: for every *)
(* call with count <= len(data), count = len(data) included, no chunk      *)
(* reads a sample index >= len(data), so the call does not abort.          *)
(* Violated: the last chunk copies data[source_index .. count + 1].        *)
(***************************************************************************)
\* C4: draw_line_graph with count <= len(data) does not abort
C4_LineGraphInRange ==
    (Done /\ call.op = "draw_line_graph"
     /\ call.args.count <= Len(call.args.data)) => result # "Panic"

\* what the code does: it stays in range exactly when count < len(data)
C4_LineGraphAborts ==
    (Done /\ call.op = "draw_line_graph" /\ call.args.count > 0
     /\ result # "Io") =>
        (result = "Panic" <=> call.args.count >= Len(call.args.data))

(***************************************************************************)
(* C5.  For any point set for which draw_pixels succeeds, every (dx, dy)   *)
(* pair of a pixel-chunk payload, plus the offset passed with its          *)
(* transfer, is a point of the input, and every input point is encoded in  *)
(* exactly one of the two subsets.                                         *)
(* Violated by a point with a negative coordinate and both coordinates     *)
(* below 256: it counts as near and `as u8` wraps it (device.rs 149-151).  *)
(***************************************************************************)
\* the points the k-th transfer's frames decode to
Decoded(l, k) ==
    IF k > Cardinality(MarkerPos(l)) THEN {}
    ELSE LET off == TransferOffset(l, k)
             frames == TransferFrames(l, k)
         IN  {<<frames[f].data[8 + 2 * j - 1] + off[1],
                frames[f].data[8 + 2 * j] + off[2]>> :
                    <<f, j>> \in {fj \in (DOMAIN frames) \X (1..28) :
                        2 * fj[2] <= PixelCount(frames[fj[1]].data)}}

PixelsDrawn ==
    /\ pc = "returned" /\ call.op = "draw_pixels" /\ Connected /\ result = "Ok"
    /\ call.args.points # <<>>

\* C5: the pairs sent decode to input points, each input point in one subset
C5_PixelsDecode ==
    PixelsDrawn =>
        LET points == call.args.points
            input == {points[i] : i \in DOMAIN points}
        IN  /\ Decoded(log, 1) \cup Decoded(log, 2) \subseteq input
            /\ \A p \in input : (p \in Decoded(log, 1)) # (p \in Decoded(log, 2))

\* what the code does: the same, when no near point has a negative coordinate
C5_PixelsDecodeNonNegative ==
    (PixelsDrawn
     /\ \A i \in DOMAIN call.args.points :
            IsNear(call.args.points[i]) =>
                call.args.points[i][1] >= 0 /\ call.args.points[i][2] >= 0)
    => LET points == call.args.points
           input == {points[i] : i \in DOMAIN points}
       IN  /\ Decoded(log, 1) \cup Decoded(log, 2) \subseteq input
           /\ \A p \in input : (p \in Decoded(log, 1)) # (p \in Decoded(log, 2))

(***************************************************************************)
(* C6.  draw_pixels fails with BoundsTooLarge exactly when, among the far  *)
(* points (either coordinate >= 256), max(x) - min(x) > 255 or             *)
(* max(y) - min(y) > 255; a far subset that spans exactly 255 succeeds and *)
(* is sent with offset (min x, min y).  Read for calls in which no write   *)
(* to the transport fails: the near transfer comes before the check, and   *)
(* its io error is returned instead.                                       *)
(***************************************************************************)
SpanX(pts) == MaxOf(Xs(pts)) - MinOf(Xs(pts))
SpanY(pts) == MaxOf(Ys(pts)) - MinOf(Ys(pts))
FarSpanTooLarge(points) ==
    LET far == FarOf(points)
    IN  far # <<>> /\ (SpanX(far) > 255 \/ SpanY(far) > 255)

\* C6: BoundsTooLarge exactly when the far points span more than 255
C6_BoundsTooLarge ==
    (pc = "returned" /\ call.op = "draw_pixels" /\ result # "Io") =>
        LET far == FarOf(call.args.points)
        IN  /\ result = "BoundsTooLarge" <=> FarSpanTooLarge(call.args.points)
            /\ ~FarSpanTooLarge(call.args.points) => result = "Ok"
            /\ (result = "Ok" /\ far # <<>>) =>
                /\ Cardinality(MarkerPos(log)) = 2
                /\ TransferOffset(log, 2) = <<MinOf(Xs(far)), MinOf(Ys(far))>>
                /\ Connected => TransferFrames(log, 2) # <<>>

\* far points exactly 255 apart were sent
C6_Witness ==
    /\ pc = "returned" /\ call.op = "draw_pixels" /\ Connected /\ result = "Ok"
    /\ Len(FarOf(call.args.points)) = 2
    /\ SpanX(FarOf(call.args.points)) = 255
    /\ TransferFrames(log, 2) # <<>>

(***************************************************************************)
(* C7.  draw_image(image, x, y) fails with ImageTooLarge whenever          *)
(* x + width > SCREEN_WIDTH or y + height > SCREEN_HEIGHT, and then        *)
(* nothing was written to the transport; a placement exactly at the        *)
(* boundary does not fail with ImageTooLarge.                              *)
(***************************************************************************)
\* C7: beyond the screen ImageTooLarge and nothing written; at the edge not
C7_ImageTooLarge ==
    (pc = "returned" /\ call.op = "draw_image") =>
        LET x == call.args.x
            y == call.args.y
            w == call.args.image.width
            h == call.args.image.height
        IN  /\ (x + w > SCREEN_WIDTH \/ y + h > SCREEN_HEIGHT) =>
                (result = "ImageTooLarge" /\ log = <<>>)
            /\ (x + w = SCREEN_WIDTH /\ y + h = SCREEN_HEIGHT) =>
                result # "ImageTooLarge"

\* one column beyond the right edge, on a connected session
C7_Witness ==
    /\ pc = "returned" /\ call.op = "draw_image" /\ Connected
    /\ call.args.x + call.args.image.width = SCREEN_WIDTH + 1
    /\ call.args.y + call.args.image.height = SCREEN_HEIGHT
    /\ result = "ImageTooLarge"

(***************************************************************************)
(* C8.  For left, top, right, bottom within 10, 8, 8 and 10 bits the five  *)
(* coordinate bytes send_command_delayed writes are the specification's    *)
(* bit formulas, inverting the formulas gives back (left, top, right,      *)
(* bottom), and byte 5 is the command code.  Checked under SpecHeader.     *)
(***************************************************************************)
\* C8: the header bytes are the bit formulas and invert to the inputs
C8_HeaderRoundTrip ==
    (pc = "returned" /\ call.op = "send_command_delayed") =>
        LET a == call.args
            d == Frames(log)[1].data
        IN  /\ Len(Frames(log)) = 1 /\ Len(d) = 6
            /\ d[1] = a.left \div 4
            /\ d[2] = BitOr((a.left % 4) * 64, a.top \div 16)
            /\ d[3] = BitOr((a.top % 16) * 16, a.right \div 64)
            /\ d[4] = BitOr((a.right % 64) * 4, a.bottom \div 256)
            /\ d[5] = a.bottom % 256
            /\ d[6] = a.command_code
            /\ d[1] * 4 + d[2] \div 64 = a.left
            /\ (d[2] % 64) * 16 + d[3] \div 16 = a.top
            /\ (d[3] % 16) * 64 + d[4] \div 4 = a.right
            /\ (d[4] % 4) * 256 + d[5] = a.bottom

\* every field at its widest
C8_Witness ==
    /\ pc = "returned" /\ call.op = "send_command_delayed"
    /\ call.args.left = 1023 /\ call.args.top = 255
    /\ call.args.right = 255 /\ call.args.bottom = 1023
    /\ Len(Frames(log)) = 1

(***************************************************************************)
(* C9.  While the session is Disconnected, any drawing or control          *)
(* operation with valid arguments writes nothing to the transport, leaves  *)
(* the session Disconnected and returns success.                           *)
(* Violated by draw_line_graph with count = len(data), which aborts on the *)
(* out-of-range slice of C4 before it reaches the guarded write.           *)
(***************************************************************************)
GuardedOps ==
    {"draw_rectangle", "draw_pixels", "draw_bar_graph", "draw_line_graph",
     "draw_image", "set_brightness", "adjust_screen", "shutdown", "restart"}

ValidArgs ==
    CASE call.op = "draw_image" ->
            /\ call.args.x + call.args.image.width <= SCREEN_WIDTH
            /\ call.args.y + call.args.image.height <= SCREEN_HEIGHT
      [] call.op = "draw_pixels" -> ~FarSpanTooLarge(call.args.points)
      [] call.op \in {"draw_bar_graph", "draw_line_graph"} ->
            call.args.count <= Len(call.args.data)
      [] OTHER -> TRUE

DisconnectedNoOp ==
    /\ Frames(log) = <<>>
    /\ NoFail(log)
    /\ serial_port = "None"
    /\ result = "Ok"

\* C9: while Disconnected a valid call writes nothing and returns Ok
C9_DisconnectedNoOp ==
    (Done /\ call.port = "None" /\ call.op \in GuardedOps /\ ValidArgs)
        => DisconnectedNoOp

\* what the code does: the same, but for a line graph only below len(data)
C9_DisconnectedNoOpBelow ==
    (Done /\ call.port = "None" /\ call.op \in GuardedOps /\ ValidArgs
     /\ (call.op = "draw_line_graph" =>
            (call.args.count = 0 \/ call.args.count < Len(call.args.data))))
        => DisconnectedNoOp

(***************************************************************************)
(* C10.  The session becomes Connected only through a successful connect   *)
(* (a failed open or a failed ready signal leaves the handle as it was);   *)
(* once Connected it stays Connected after any drawing, brightness or      *)
(* orientation operation, whether it succeeds or fails; it leaves          *)
(* Connected only by an explicit shutdown or restart, never implicitly.    *)
(***************************************************************************)
C10_SessionStep ==
    /\ (serial_port = "None" /\ serial_port' = "Some") =>
            (call'.op = "connect" /\ result' = "Ok")
    /\ (pc = "idle" /\ call'.op = "connect") =>
            IF result' = "Ok" THEN serial_port' = "Some"
                              ELSE serial_port' = serial_port
    /\ (serial_port = "Some" /\ serial_port' # "Some") =>
            call'.op \in {"shutdown", "restart"}

\* C10: every step of the session obeys the state machine
C10_SessionStateMachine == [][C10_SessionStep]_vars

\* still connected after a drawing call that failed on the transport
C10_Witness ==
    /\ pc = "returned" /\ call.op = "draw_pixels" /\ call.port = "Some"
    /\ result = "Io" /\ serial_port = "Some"

(***************************************************************************)
(* C11.  Pacing: in every operation each frame written to the transport is *)
(* followed by a fixed delay before the next frame is written, the chunk   *)
(* frames of draw_pixels, draw_bar_graph and draw_line_graph included, and *)
(* a bar or line graph ends with one more delay after its last chunk.      *)
(* Violated by a graph of two chunks or more: kd_draw_buf (device.rs       *)
(* 367-393) writes and returns without sleeping, so the chunk frames go    *)
(* out back to back and the only delay is the one after the loop.          *)
(***************************************************************************)
\* what went to the transport and the delays, in order
Traffic(l) == SelectSeq(l, LAMBDA e : e.kind # "transfer")

\* every frame written is followed by a delay before the next write
Paced(t) ==
    \A i \in DOMAIN t :
        (t[i].kind = "write" /\ \E j \in DOMAIN t : j > i /\ t[j].kind \in {"write", "fail"})
            => t[i + 1].kind = "sleep"

\* C11: a delay after every frame before the next, one more after a graph
C11_Pacing ==
    Done =>
        LET t == Traffic(log)
        IN  /\ Paced(t)
            /\ (call.op \in {"draw_bar_graph", "draw_line_graph"} /\ result = "Ok")
                => (t # <<>> /\ t[Len(t)].kind = "sleep")

\* what the code does: frames with the compact header are paced, a graph's
\* frames are not, and the graph sleeps once, after its loop
C11_PacingCompactOnly ==
    Done =>
        LET t == Traffic(log)
        IN  /\ call.op \notin {"draw_bar_graph", "draw_line_graph"} => Paced(t)
            /\ (call.op \in {"draw_bar_graph", "draw_line_graph"} /\ result = "Ok")
                => /\ t # <<>> /\ t[Len(t)] = Event("sleep", <<>>, 5)
                   /\ \A i \in 1..(Len(t) - 1) : t[i].kind = "write"

(***************************************************************************)
(* C12.  A transport write failure aborts the whole drawing call: when a   *)
(* write fails during draw_pixels, draw_bar_graph, draw_line_graph or      *)
(* draw_image the call returns that error, the failed frame is not tried   *)
(* again and no further frame of the call is written; the frames written   *)
(* before the failure are the ones the call writes when nothing fails.     *)
(***************************************************************************)
DrawingOps == {"draw_pixels", "draw_bar_graph", "draw_line_graph", "draw_image"}

\* the frames the recorded call writes when the transport does not fail
FramesUndisturbed ==
    LET a == call.args
        st == Begin(TRUE, 0)
    IN  Frames(CASE call.op = "draw_pixels" -> draw_pixels(st, a.color, a.points).log
                 [] call.op = "draw_image" -> draw_image(st, a.image, a.x, a.y).log
                 [] call.op = "draw_bar_graph" ->
                        draw_bar_graph(st, a.x, a.y, a.count, a.color_bg,
                                       a.color_fg, a.data).log
                 [] call.op = "draw_line_graph" ->
                        draw_line_graph(st, a.x, a.y, a.count, a.color_bg,
                                        a.color_fg, a.data).log)

\* C12: a failed write ends the call with that error, nothing retried or sent after
C12_WriteFailureAborts ==
    (Done /\ call.op \in DrawingOps) =>
        /\ result = "Io" <=> ~NoFail(log)
        /\ ~NoFail(log) =>
            LET n == Len(Frames(log))
            IN  /\ log[Len(log)].kind = "fail"
                /\ Cardinality({i \in DOMAIN log : log[i].kind = "fail"}) = 1
                /\ n = call.failAt - 1
                /\ n < Len(FramesUndisturbed)
                /\ Frames(log) = SubSeq(FramesUndisturbed, 1, n)
                /\ log[Len(log)].data = FramesUndisturbed[n + 1].data

\* the second of three pixel-list frames failed, the first stays written
C12_Witness ==
    /\ pc = "returned" /\ call.op = "draw_pixels" /\ Connected
    /\ call.failAt = 2 /\ result = "Io"
    /\ Len(Frames(log)) = 1
    /\ Len(FramesUndisturbed) = 3

(***************************************************************************)
(* C13.  Every chunk frame is built in a freshly zeroed buffer: in each    *)
(* 64-byte frame of a pixel-list, bar-graph or line-graph transfer every   *)
(* byte after the reserved header and the slice copied for that chunk is   *)
(* zero; the last, short frame of a multi-chunk pixel-list transfer        *)
(* carries no coordinate bytes of the previous chunk.                      *)
(* Violated by a pixel list: draw_pixels_raw allocates buf once, before    *)
(* its loop (device.rs 194), and copies every chunk over the previous one. *)
(***************************************************************************)
\* the bytes of frame d after its first n
ZeroAfter(d, n) == \A i \in (n + 1)..Len(d) : d[i] = 0

PixelFramesFresh ==
    \A k \in 1..Cardinality(MarkerPos(log)) :
        \A f \in DOMAIN TransferFrames(log, k) :
            LET d == TransferFrames(log, k)[f].data
            IN  Len(d) = 64 /\ ZeroAfter(d, 8 + PixelCount(d))

GraphFramesFresh(overlap) ==
    \A f \in DOMAIN Frames(log) :
        LET d == Frames(log)[f].data
        IN  Len(d) = 64 /\ ZeroAfter(d, 12 + GraphCount(d) + overlap)

\* C13: in every chunk frame the bytes after header and copied slice are zero
C13_FreshFrames ==
    (Done /\ Connected) =>
        /\ call.op = "draw_pixels" => PixelFramesFresh
        /\ call.op = "draw_bar_graph" => GraphFramesFresh(0)
        /\ call.op = "draw_line_graph" => GraphFramesFresh(1)

\* what the code does: graph frames are fresh; a pixel-list frame keeps, after
\* its own slice, what the transfer's previous frame had there
C13_PixelFramesReuse ==
    (Done /\ Connected) =>
        /\ call.op = "draw_bar_graph" => GraphFramesFresh(0)
        /\ call.op = "draw_line_graph" => GraphFramesFresh(1)
        /\ call.op = "draw_pixels" =>
            \A k \in 1..Cardinality(MarkerPos(log)) :
                LET frames == TransferFrames(log, k)
                IN  \A f \in DOMAIN frames :
                        LET d == frames[f].data
                            n == 8 + PixelCount(d)
                        IN  /\ Len(d) = 64
                            /\ f = 1 => ZeroAfter(d, n)
                            /\ f > 1 => \A i \in (n + 1)..64 : d[i] = frames[f - 1].data[i]

(***************************************************************************)
(* C14.  Each pixel-list chunk frame is a compact header with command code *)
(* 195 carrying (left, top, right, bottom) = (offset_x, offset_y,          *)
(* point_count, 0), point_count the number of points (coordinate pairs) in *)
(* the chunk, then the colour, high byte first, at offsets 6 and 7 and the *)
(* coordinate pairs from offset 8.                                         *)
(* The right field is the number of coordinate BYTES of the chunk, two per *)
(* point (device.rs 201-210: right is the slice length handed to           *)
(* send_command); with that the statement holds.  The header gives back    *)
(* the offset when the offset fits its fields (0..1023).                   *)
(***************************************************************************)
\* the fields a compact header decodes to: ten bits each
HeaderLeft(d) == d[1] * 4 + d[2] \div 64
HeaderTop(d) == (d[2] % 64) * 16 + d[3] \div 16
HeaderRight(d) == (d[3] % 16) * 64 + d[4] \div 4
HeaderBottom(d) == (d[4] % 4) * 256 + d[5]

\* the subset the k-th transfer of draw_pixels sends, and its offset
SubsetOf(points, k) == IF k = 1 THEN NearOf(points) ELSE FarOf(points)
OffsetOf(points, k) ==
    IF k = 1 THEN <<0, 0>>
    ELSE <<MinOf(Xs(FarOf(points))), MinOf(Ys(FarOf(points)))>>

\* frame f of transfer k, with `unit` coordinate bytes counted as one in the
\* header's right field
PixelFrameIs(k, f, unit) ==
    LET points == call.args.points
        d == TransferFrames(log, k)[f].data
        off == OffsetOf(points, k)
        bytes == PairBytes(SubsetOf(points, k), off[1], off[2])
        n == ChunkSizes(Len(bytes), 56)[f]
        c == ToSerial(call.args.color.r, call.args.color.g, call.args.color.b)
    IN  /\ Len(d) = 64
        /\ d[6] = 195
        /\ HeaderRight(d) = n \div unit
        /\ HeaderBottom(d) = 0
        /\ (off[1] \in 0..1023 /\ off[2] \in 0..1023) =>
                (HeaderLeft(d) = off[1] /\ HeaderTop(d) = off[2])
        /\ d[1] = (off[1] \div 4) % 256
        /\ d[2] = ((off[1] % 4) * 64 + off[2] \div 16) % 256
        /\ d[3] \div 16 = off[2] % 16
        /\ d[7] = Hi(c) /\ d[8] = Lo(c)
        /\ SubSeq(d, 9, 8 + n) = SubSeq(bytes, 56 * (f - 1) + 1, 56 * (f - 1) + n)

PixelFramesAre(unit) ==
    (Done /\ Connected /\ call.op = "draw_pixels") =>
        \A k \in 1..Cardinality(MarkerPos(log)) :
            \A f \in DOMAIN TransferFrames(log, k) : PixelFrameIs(k, f, unit)

\* C14: every pixel-list frame is (offset_x, offset_y, points, 0), code 195, colour, pairs
C14_PixelFramePoints == PixelFramesAre(2)

\* C14, amended: every pixel-list frame is (offset_x, offset_y, bytes, 0), code 195,
\* colour, pairs
C14_PixelFrameBytes == PixelFramesAre(1)

\* a full near frame and two far frames behind a non-zero offset
C14_Witness ==
    /\ pc = "returned" /\ call.op = "draw_pixels" /\ Connected /\ result = "Ok"
    /\ Cardinality(MarkerPos(log)) = 2
    /\ Len(TransferFrames(log, 1)) = 1
    /\ HeaderRight(TransferFrames(log, 1)[1].data) = 56
    /\ Len(TransferFrames(log, 2)) = 2
    /\ HeaderLeft(TransferFrames(log, 2)[1].data) = 301

(***************************************************************************)
(* C15.  In a draw_line_graph transfer the chunk that starts at sample     *)
(* index s with element count n carries the n + 1 samples data[s..s+n], so *)
(* two consecutive frames share exactly one sample, the last of the        *)
(* earlier being the first of the later; the left field is x + s + 1, with *)
(* its top bit (32768) set in the first frame of the series and in no      *)
(* later one.  Stated of every frame a call writes, whether or not the     *)
(* call goes on to complete.                                               *)
(***************************************************************************)
HeaderLeft16(d) == d[1] * 256 + d[2]

\* where the f-th chunk of a line graph starts, and its element count
LineStart(f) == 51 * (f - 1)
LineCount(count, f) == IF LineStart(f) + 51 > count THEN count - LineStart(f) ELSE 51

\* C15: line-graph frames overlap by one sample, left = x + s + 1, top bit on the first
C15_LineGraphOverlap ==
    (Done /\ Connected /\ call.op = "draw_line_graph") =>
        LET a == call.args
            frames == Frames(log)
        IN  \A f \in DOMAIN frames :
                LET d == frames[f].data
                    s == LineStart(f)
                    n == LineCount(a.count, f)
                IN  /\ GraphCount(d) = n
                    /\ s + n + 1 <= Len(a.data)
                    /\ SubSeq(d, 13, 13 + n) = SubSeq(a.data, s + 1, s + n + 1)
                    /\ HeaderLeft16(d) % 32768 = a.x + s + 1
                    /\ HeaderLeft16(d) >= 32768 <=> f = 1
                    /\ f > 1 =>
                        LET e == frames[f - 1].data
                        IN  /\ d[13] = e[13 + GraphCount(e)]
                            /\ d[14] \notin {e[i] : i \in 13..(13 + GraphCount(e))}

\* a line graph of three chunks, two boundary samples sent twice
C15_Witness ==
    /\ pc = "returned" /\ call.op = "draw_line_graph" /\ Connected
    /\ result = "Ok" /\ call.args.x = 700
    /\ Len(Frames(log)) = 3
    /\ Frames(log)[2].data[13] = Frames(log)[1].data[64]
    /\ HeaderLeft16(Frames(log)[3].data) = 700 + 102 + 1

(***************************************************************************)
(* C16.  draw_rectangle(left, top, right, bottom, color) on a connected    *)
(* session writes exactly one frame of 12 bytes, the extended header, and  *)
(* no payload: left, top, right, bottom as big-endian 16-bit values at     *)
(* offsets 0, 2, 4, 6; the 16-bit serial colour, high byte first, at       *)
(* offset 8; at offset 10 the hint byte                                    *)
(* (((color16 >> 2) + 2) & 0x0F) | (((bottom >> 3) + 3) & 0xF0); and the   *)
(* command code 136 at offset 11.  Read for calls whose write the          *)
(* transport accepts.                                                      *)
(***************************************************************************)
\* the hint byte by arithmetic: a low nibble and a high nibble
HintByte(color16, bottom) ==
    LET lo == (color16 \div 4 + 2) % 16
        v == (bottom \div 8 + 3) % 256
    IN  lo + (v - (v % 16))

\* C16: draw_rectangle writes one 12-byte extended-header frame, code 136
C16_RectangleFrame ==
    (Done /\ Connected /\ call.op = "draw_rectangle" /\ NoFail(log)) =>
        LET a == call.args
            c == ToSerial(a.color.r, a.color.g, a.color.b)
        IN  /\ result = "Ok"
            /\ Len(Frames(log)) = 1
            /\ \A i \in DOMAIN log : log[i].kind = "write"
            /\ Frames(log)[1].data =
                <<Hi(a.left), Lo(a.left), Hi(a.top), Lo(a.top),
                  Hi(a.right), Lo(a.right), Hi(a.bottom), Lo(a.bottom),
                  Hi(c), Lo(c), HintByte(c, a.bottom), 136>>

\* a rectangle whose fields and hint have both bytes and both nibbles set
C16_Witness ==
    /\ pc = "returned" /\ call.op = "draw_rectangle" /\ Connected /\ result = "Ok"
    /\ call.args.left = 300 /\ call.args.top = 257
    /\ call.args.right = 799 /\ call.args.bottom = 799
    /\ call.args.color = Grey
    /\ Len(Frames(log)) = 1
    /\ Frames(log)[1].data = <<1, 44, 1, 1, 3, 31, 3, 31, 4, 9, 100, 136>>

(***************************************************************************)
(* C17.  draw_pixels is not atomic on failure: the near-subset transfer is *)
(* performed before the bounds of the far subset are checked, so whenever  *)
(* draw_pixels returns BoundsTooLarge every near-subset frame has been     *)
(* written to the transport and no far-subset frame has; for an empty      *)
(* input nothing is written, and when there are no far points no           *)
(* far-subset transfer is started.                                         *)
(***************************************************************************)
\* C17: on BoundsTooLarge the near frames are out and no far frame; none without far points
C17_NearBeforeBoundsCheck ==
    (Done /\ call.op = "draw_pixels") =>
        LET points == call.args.points
            near == NearOf(points)
            transfers == Cardinality(MarkerPos(log))
        IN  /\ points = <<>> => (log = <<>> /\ result = "Ok")
            /\ points # <<>> => (transfers >= 1 /\ TransferOffset(log, 1) = <<0, 0>>)
            /\ FarOf(points) = <<>> => transfers <= 1
            /\ transfers <= 2
            /\ result = "BoundsTooLarge" =>
                /\ transfers = 1
                /\ NoFail(log)
                /\ Len(Frames(log)) = (IF Connected THEN ChunkCount(2 * Len(near), 56) ELSE 0)
                /\ Connected => ConcatData(Frames(log), 8) = PairBytes(near, 0, 0)

\* BoundsTooLarge came back after two frames of near points had been written
C17_Witness ==
    /\ pc = "returned" /\ call.op = "draw_pixels" /\ Connected
    /\ result = "BoundsTooLarge"
    /\ Len(NearOf(call.args.points)) > 28
    /\ Len(Frames(log)) = 2
    /\ Cardinality(MarkerPos(log)) = 1

====
